---- MODULE Spec2Model ----
(***************************************************************************)
(* Earthquake visualizer: the App component (src/App.tsx).                 *)
(*                                                                         *)
(* The component owns five pieces of React state (features, minMag,        *)
(* loading, error, lastUpdated).  loadData is an async function: its       *)
(* synchronous prefix runs in the caller's step, then it suspends at       *)
(* `await fetch(...)` and again at `await res.json()`; each resumption is  *)
(* one step of the single-threaded event loop.  Several calls of loadData  *)
(* may be suspended at once (mount, interval tick, Retry button).          *)
(*                                                                         *)
(* Encoding.  A nullable value is a sequence of length 0 (null/undefined)  *)
(* or 1 (the value).  Magnitudes and the threshold are in hundredths       *)
(* (5.2 is 520).  Times are in milliseconds.                               *)
(***************************************************************************)
EXTENDS Integers, Sequences, FiniteSets

VARIABLES
  features,     \* useState<EarthquakeFeature[]>([])
  minMag,       \* useState<number>(0)
  loading,      \* useState<boolean>(true)
  error,        \* useState<string | null>(null)
  lastUpdated,  \* useState<number | null>(null)
  phase,        \* "created" (before the effect ran), "mounted", "unmounted"
  timerActive,  \* the interval registered by setInterval is live
  req,          \* position of each loadData call: idle/fetch/json/ok/failed
  nextId,       \* number of the next loadData call
  ticks,        \* how many times the interval has fired
  mapFeatures,  \* the `features` prop last passed to MapView
  lastOk,       \* history: the call whose try block last ran to its end
  hist,         \* history: the handler that ran in the last step
  mag,          \* argument of the last magToColor call
  color         \* result of the last magToColor call

vars == <<features, minMag, loading, error, lastUpdated, phase, timerActive,
          req, nextId, ticks, mapFeatures, lastOk, hist, mag, color>>

----------------------------------------------------------------------------
(* Bounds *)

MaxFetches == 3     \* loadData calls per run
MaxEvents == 3      \* length of the event lists the filter is applied to

----------------------------------------------------------------------------
(* Values *)

Null == <<>>
Some(v) == <<v>>

RefreshMs == 5 * 60 * 1000

SliderMin == 0
SliderMax == 800
SliderStep == 10

\* every value the range input can report: parseFloat of min + k*step
SliderValues == { SliderMin + k * SliderStep : k \in 0..((SliderMax - SliderMin) \div SliderStep) }

\* the thresholds tried while fetches are interleaved
SliderSample == { SliderMin, 200, SliderMax }

Feature(i, m) == [id |-> i, mag |-> m]

\* Bodies the feed may answer with (parsed JSON objects).
JsonBodies ==
  { [features |-> Some(<<Feature(1, Some(520)), Feature(2, Null), Feature(3, Some(190))>>),
     metadata |-> Some([generated |-> Some(1000)])],
    [features |-> Some(<<Feature(4, Some(0))>>),
     metadata |-> Some([generated |-> Some(2000)])],
    [features |-> Null, metadata |-> Null] }

HttpStatuses == {200, 404, 500, 503}

\* Date.now(): one refresh interval elapses per tick of the timer
Now == (1 + ticks) * RefreshMs

----------------------------------------------------------------------------
(* Pure functions *)

\* An extended real: a finite number or -Infinity.
Num(v) == [fin |-> TRUE, val |-> v]
NegInfinity == [fin |-> FALSE, val |-> 0]

\* x >= y on extended reals
GE(x, y) == IF x.fin THEN (~y.fin \/ x.val >= y.val) ELSE ~y.fin

\* variant: f.properties.mag ?? 0
magOrZero(m) == IF m = Null THEN Num(0) ELSE Num(m[1])

\* f.properties.mag ?? -Infinity
magOrNegInfinity(m) == IF m = Null THEN NegInfinity ELSE Num(m[1])

\* the filter callback: (f.properties.mag ?? -Infinity) >= minMag
keeps(f, t) == GE(magOrNegInfinity(f.mag), Num(t))

\* features.filter(...)
filtered(fs, t) == SelectSeq(fs, LAMBDA f : keeps(f, t))

\* variant: exclusive lower bounds (`>` for `>=`)
magToColorExclusive(m) ==
  IF m = Null THEN "#9aa0a6"
  ELSE IF m[1] > 700 THEN "#7f0000"
  ELSE IF m[1] > 600 THEN "#b30000"
  ELSE IF m[1] > 500 THEN "#d7301f"
  ELSE IF m[1] > 400 THEN "#ef6548"
  ELSE IF m[1] > 200 THEN "#fc8d59"
  ELSE "#fdbb84"

magToColor(m) ==
  IF m = Null THEN "#9aa0a6"
  ELSE IF m[1] >= 700 THEN "#7f0000"
  ELSE IF m[1] >= 600 THEN "#b30000"
  ELSE IF m[1] >= 500 THEN "#d7301f"
  ELSE IF m[1] >= 400 THEN "#ef6548"
  ELSE IF m[1] >= 200 THEN "#fc8d59"
  ELSE "#fdbb84"

\* res.ok
ok(status) == status >= 200 /\ status <= 299

\* one decimal digit as a string
digit(d) ==
  CASE d = 0 -> "0" [] d = 1 -> "1" [] d = 2 -> "2" [] d = 3 -> "3"
    [] d = 4 -> "4" [] d = 5 -> "5" [] d = 6 -> "6" [] d = 7 -> "7"
    [] d = 8 -> "8" [] d = 9 -> "9"

RECURSIVE numberToString(_)
\* the string a template literal makes of a non-negative integer
numberToString(n) ==
  IF n < 10 THEN digit(n)
  ELSE numberToString(n \div 10) \o digit(n % 10)

\* `HTTP ${res.status}`
httpMessage(status) == "HTTP " \o numberToString(status)

\* json.features || []
featuresOrEmpty(json) == IF json.features = Null THEN <<>> ELSE json.features[1]

\* json.metadata?.generated ?? Date.now()
generatedOrNow(json, now) ==
  IF json.metadata = Null THEN now
  ELSE IF json.metadata[1].generated = Null THEN now
  ELSE json.metadata[1].generated[1]

----------------------------------------------------------------------------
(* State *)

ReqIds == 1..MaxFetches

InFlight == { i \in DOMAIN req : req[i] \in {"fetch", "json"} }

Init ==
  /\ features = <<>>
  /\ minMag = 0
  /\ loading = TRUE
  /\ error = Null
  /\ lastUpdated = Null
  /\ phase = "created"
  /\ timerActive = FALSE
  /\ req = [i \in ReqIds |-> "idle"]
  /\ nextId = 1
  /\ ticks = 0
  /\ mapFeatures = filtered(<<>>, 0)
  /\ lastOk = [id |-> 0, json |-> [features |-> Null, metadata |-> Null], at |-> 0]
  /\ hist = [op |-> "init", id |-> 0]
  /\ mag = Null
  /\ color = magToColor(Null)

\* useMemo + <MapView features={filtered} />: a state change re-renders the
\* component while it is mounted
Render ==
  IF phase' = "unmounted" THEN UNCHANGED mapFeatures
  ELSE mapFeatures' = filtered(features', minMag')

----------------------------------------------------------------------------
(* loadData *)

\* e instanceof Error ? e.message : 'Unknown error'
messageOf(e) == IF e.isError THEN e.message ELSE "Unknown error"

\* what the awaited promises reject with, and what the try block throws
NetworkError == [isError |-> TRUE, message |-> "Failed to fetch"]
HttpError(status) == [isError |-> TRUE, message |-> httpMessage(status)]
SyntaxError == [isError |-> TRUE, message |-> "Unexpected token in JSON"]
TypeError == [isError |-> TRUE, message |-> "Cannot read properties of null (reading 'features')"]

\* variant: a call made while `loading` is set is dropped
loadDataUnlessLoading ==
  IF loading
  THEN UNCHANGED <<loading, error, req, nextId>>
  ELSE /\ loading' = TRUE
       /\ error' = Null
       /\ req' = [req EXCEPT ![nextId] = "fetch"]
       /\ nextId' = nextId + 1

\* variant: setError(null) left out
loadDataKeepsError ==
  /\ loading' = TRUE
  /\ req' = [req EXCEPT ![nextId] = "fetch"]
  /\ nextId' = nextId + 1
  /\ UNCHANGED error

\* The synchronous prefix of loadData, up to the first await: lines 34-37.
loadData ==
  /\ loading' = TRUE
  /\ error' = Null
  /\ req' = [req EXCEPT ![nextId] = "fetch"]
  /\ nextId' = nextId + 1

\* variant: the catch block also drops the data
catchFinallyClears(i, e) ==
  /\ error' = Some(messageOf(e))
  /\ loading' = FALSE
  /\ req' = [req EXCEPT ![i] = "failed"]
  /\ features' = <<>>
  /\ lastUpdated' = Null

\* catch + finally of call i: lines 42-47.
catchFinally(i, e) ==
  /\ error' = Some(messageOf(e))
  /\ loading' = FALSE
  /\ req' = [req EXCEPT ![i] = "failed"]
  /\ UNCHANGED <<features, lastUpdated>>

\* variant: a response older than the last one applied is discarded
tryFinallyNewest(i, json) ==
  /\ IF i > lastOk.id
     THEN /\ features' = featuresOrEmpty(json)
          /\ lastUpdated' = Some(generatedOrNow(json, Now))
     ELSE UNCHANGED <<features, lastUpdated>>
  /\ loading' = FALSE
  /\ req' = [req EXCEPT ![i] = "ok"]
  /\ UNCHANGED error

\* the rest of the try block after res.json() resolved, + finally:
\* lines 40-41, 46.
tryFinally(i, json) ==
  /\ features' = featuresOrEmpty(json)
  /\ lastUpdated' = Some(generatedOrNow(json, Now))
  /\ loading' = FALSE
  /\ req' = [req EXCEPT ![i] = "ok"]
  /\ UNCHANGED error

----------------------------------------------------------------------------
(* Steps *)

\* useEffect(() => { loadData(); const id = setInterval(...); ... }, [])
Mount ==
  /\ phase = "created"
  /\ phase' = "mounted"
  /\ timerActive' = TRUE
  /\ loadData
  /\ hist' = [op |-> "mount", id |-> nextId]
  /\ UNCHANGED <<features, lastUpdated, minMag, ticks, lastOk, mag, color>>
  /\ Render

\* the interval fires: setInterval(loadData, 5 * 60 * 1000)
Tick ==
  /\ timerActive
  /\ nextId <= MaxFetches
  /\ ticks' = ticks + 1
  /\ loadData
  /\ hist' = [op |-> "tick", id |-> nextId]
  /\ UNCHANGED <<features, lastUpdated, minMag, phase, timerActive, lastOk, mag, color>>
  /\ Render

\* {error && (... <button onClick={loadData}>Retry</button> ...)}
Retry ==
  /\ phase = "mounted"
  /\ error # Null
  /\ nextId <= MaxFetches
  /\ loadData
  /\ hist' = [op |-> "retry", id |-> nextId]
  /\ UNCHANGED <<features, lastUpdated, minMag, phase, timerActive, ticks, lastOk, mag, color>>
  /\ Render

\* variant: the effect returns no cleanup
UnmountKeepsTimer ==
  /\ phase = "mounted"
  /\ phase' = "unmounted"
  /\ UNCHANGED timerActive
  /\ hist' = [op |-> "unmount", id |-> 0]
  /\ UNCHANGED <<features, minMag, loading, error, lastUpdated, req, nextId,
                 ticks, lastOk, mag, color>>
  /\ Render

\* the cleanup of the effect: () => clearInterval(id)
Unmount ==
  /\ phase = "mounted"
  /\ phase' = "unmounted"
  /\ timerActive' = FALSE
  /\ hist' = [op |-> "unmount", id |-> 0]
  /\ UNCHANGED <<features, minMag, loading, error, lastUpdated, req, nextId,
                 ticks, lastOk, mag, color>>
  /\ Render

\* variant: moving the slider also reloads the feed
onChangeReloads(values) ==
  /\ phase = "mounted"
  /\ nextId <= MaxFetches
  /\ \E t \in values :
       /\ t # minMag
       /\ minMag' = t
  /\ loadData
  /\ hist' = [op |-> "threshold", id |-> 0]
  /\ UNCHANGED <<features, lastUpdated, phase, timerActive,
                 ticks, lastOk, mag, color>>
  /\ Render

\* onChange={(e) => setMinMag(parseFloat(e.target.value))}
onChange(values) ==
  /\ phase = "mounted"
  /\ \E t \in values :
       /\ t # minMag
       /\ minMag' = t
  /\ hist' = [op |-> "threshold", id |-> 0]
  /\ UNCHANGED <<features, loading, error, lastUpdated, phase, timerActive,
                 req, nextId, ticks, lastOk, mag, color>>
  /\ Render

\* `await fetch(...)` rejects: no response
FetchReject(i) ==
  /\ req[i] = "fetch"
  /\ catchFinally(i, NetworkError)
  /\ hist' = [op |-> "failed", id |-> i]
  /\ UNCHANGED <<minMag, phase, timerActive, nextId, ticks, lastOk, mag, color>>
  /\ Render

\* `await fetch(...)` resolves with a status that is not ok: line 38 throws
FetchNotOk(i) ==
  /\ req[i] = "fetch"
  /\ \E status \in HttpStatuses :
       /\ ~ok(status)
       /\ catchFinally(i, HttpError(status))
  /\ hist' = [op |-> "failed", id |-> i]
  /\ UNCHANGED <<minMag, phase, timerActive, nextId, ticks, lastOk, mag, color>>
  /\ Render

\* `await fetch(...)` resolves with an ok status: suspend at `await res.json()`
FetchOk(i) ==
  /\ req[i] = "fetch"
  /\ \E status \in HttpStatuses : ok(status)
  /\ req' = [req EXCEPT ![i] = "json"]
  /\ hist' = [op |-> "response", id |-> i]
  /\ UNCHANGED <<features, minMag, loading, error, lastUpdated, phase,
                 timerActive, nextId, ticks, mapFeatures, lastOk, mag, color>>

\* `await res.json()` rejects: the body is not JSON
JsonReject(i) ==
  /\ req[i] = "json"
  /\ catchFinally(i, SyntaxError)
  /\ hist' = [op |-> "failed", id |-> i]
  /\ UNCHANGED <<minMag, phase, timerActive, nextId, ticks, lastOk, mag, color>>
  /\ Render

\* `await res.json()` resolves with null: `json.features` throws
JsonNull(i) ==
  /\ req[i] = "json"
  /\ catchFinally(i, TypeError)
  /\ hist' = [op |-> "failed", id |-> i]
  /\ UNCHANGED <<minMag, phase, timerActive, nextId, ticks, lastOk, mag, color>>
  /\ Render

\* `await res.json()` resolves with an object
JsonResolve(i) ==
  /\ req[i] = "json"
  /\ \E json \in JsonBodies :
       /\ tryFinally(i, json)
       /\ lastOk' = [id |-> i, json |-> json, at |-> Now]
  /\ hist' = [op |-> "succeeded", id |-> i]
  /\ UNCHANGED <<minMag, phase, timerActive, nextId, ticks, mag, color>>
  /\ Render

Next ==
  \/ Mount
  \/ Tick
  \/ Retry
  \/ Unmount
  \/ onChange(SliderSample)
  \/ \E i \in ReqIds : FetchReject(i)
  \/ \E i \in ReqIds : FetchNotOk(i)
  \/ \E i \in ReqIds : FetchOk(i)
  \/ \E i \in ReqIds : JsonReject(i)
  \/ \E i \in ReqIds : JsonNull(i)
  \/ \E i \in ReqIds : JsonResolve(i)

Spec == Init /\ [][Next]_vars

----------------------------------------------------------------------------
(* The filter on arbitrary event lists *)

EventMags == { Null, Some(0), Some(190), Some(200), Some(520) }

\* the event lists of at most MaxEvents events; the i-th event has id i
FeatureLists ==
  UNION { { [i \in 1..n |-> Feature(i, ms[i])] : ms \in [1..n -> EventMags] }
          : n \in 0..MaxEvents }

\* the component after its first load delivered an arbitrary event list
InitFilter ==
  \E fs \in FeatureLists :
    LET json == [features |-> Some(fs), metadata |-> Some([generated |-> Some(1000)])] IN
    /\ features = featuresOrEmpty(json)
    /\ minMag = 0
    /\ loading = FALSE
    /\ error = Null
    /\ ticks = 0
    /\ lastUpdated = Some(generatedOrNow(json, Now))
    /\ phase = "mounted"
    /\ timerActive = TRUE
    /\ req = [i \in ReqIds |-> IF i = 1 THEN "ok" ELSE "idle"]
    /\ nextId = 2
    /\ mapFeatures = filtered(fs, 0)
    /\ lastOk = [id |-> 1, json |-> json, at |-> Now]
    /\ hist = [op |-> "succeeded", id |-> 1]
    /\ mag = Null
    /\ color = magToColor(Null)

NextFilter == onChange(SliderValues)

SpecFilter == InitFilter /\ [][NextFilter]_vars

----------------------------------------------------------------------------
(* magToColor on arbitrary magnitudes *)

MagInputs == { Null } \cup { Some(v) : v \in (-100)..900 }

\* MapView: const mag = f.properties.mag; const color = magToColor(mag);
Marker ==
  /\ \E m \in MagInputs :
       /\ mag' = m
       /\ color' = magToColor(m)
  /\ UNCHANGED <<features, minMag, loading, error, lastUpdated, phase,
                 timerActive, req, nextId, ticks, mapFeatures, lastOk, hist>>

NextColor == Marker

SpecColor == Init /\ [][NextColor]_vars

----------------------------------------------------------------------------
(* Properties *)

\* the snapshot a successful call delivered
SnapshotFeatures(okCall) ==
  IF okCall.json.features = Null THEN <<>> ELSE okCall.json.features[1]

SnapshotTime(okCall) ==
  IF okCall.json.metadata = Null THEN okCall.at
  ELSE IF okCall.json.metadata[1].generated = Null THEN okCall.at
  ELSE okCall.json.metadata[1].generated[1]

\* C1: the step in which a call of loadData fails leaves features and
\* lastUpdated as they were, sets error to a message and clears loading,
\* whatever other calls are suspended.
C1_FailureKeepsData ==
  [][hist'.op = "failed" =>
       /\ features' = features
       /\ lastUpdated' = lastUpdated
       /\ error' # Null
       /\ loading' = FALSE]_vars

\* a call failed while data was held and another call was still suspended
C1_Witness ==
  /\ hist.op = "failed"
  /\ features # <<>>
  /\ lastUpdated # Null
  /\ error # Null
  /\ InFlight # {}

\* C2: right after a call of loadData succeeds, features and lastUpdated are
\* that call's snapshot, error is null and loading is false.
C2_SuccessClearsError ==
  hist.op = "succeeded" =>
    /\ features = SnapshotFeatures(lastOk)
    /\ lastUpdated = Some(SnapshotTime(lastOk))
    /\ error = Null
    /\ loading = FALSE

\* C3: loading is true whenever some call of loadData has not completed.
C3_LoadingWhileInFlight == InFlight # {} => loading

\* C4: once no call is suspended, features and lastUpdated hold the snapshot
\* of the successful call that completed last, whatever its issue number.
C4_LastCompletedWins ==
  (InFlight = {} /\ lastOk.id # 0) =>
    /\ features = SnapshotFeatures(lastOk)
    /\ lastUpdated = Some(SnapshotTime(lastOk))

\* all calls are over and the snapshot held is that of an earlier call than
\* another successful one, with different contents
C4_Witness ==
  /\ InFlight = {}
  /\ lastOk.id # 0
  /\ features = SnapshotFeatures(lastOk)
  /\ \E i \in ReqIds : i > lastOk.id /\ req[i] = "ok"

\* C5: every trigger (mount, interval tick, Retry) sets loading, clears error
\* and starts a new call, also when loading is already set or other calls are
\* suspended.
C5_TriggerAlwaysFetches ==
  [][hist'.op \in {"mount", "tick", "retry"} =>
       /\ loading' = TRUE
       /\ error' = Null
       /\ nextId' = nextId + 1
       /\ req[nextId] = "idle"
       /\ req'[nextId] = "fetch"
       /\ InFlight' = InFlight \cup {nextId}]_vars

\* Retry was pressed while another call was suspended
C5_Witness ==
  /\ hist.op = "retry"
  /\ Cardinality(InFlight) >= 2
  /\ loading

RECURSIVE AtLeast(_, _)
\* the subsequence of the events with a magnitude that is present and >= t
AtLeast(fs, t) ==
  IF fs = <<>> THEN <<>>
  ELSE LET f == Head(fs) IN
       IF f.mag # Null /\ f.mag[1] >= t
       THEN <<f>> \o AtLeast(Tail(fs), t)
       ELSE AtLeast(Tail(fs), t)

\* C6: the list passed to MapView is the subsequence, in the original order,
\* of the events whose magnitude is present and at least the threshold.
C6_FilterExact ==
  /\ minMag \in SliderValues
  /\ mapFeatures = AtLeast(features, minMag)

\* at threshold 0 an event without magnitude was dropped and one with
\* magnitude 0 was kept
C6_Witness ==
  /\ minMag = 0
  /\ hist.op = "threshold"
  /\ \E i \in DOMAIN features : features[i].mag = Null
  /\ \E i \in DOMAIN mapFeatures : mapFeatures[i].mag = Some(0)
  /\ Len(mapFeatures) < Len(features)

\* C7: after the component is unmounted the interval never fires again.
C7_NoTickAfterUnmount ==
  [][phase = "unmounted" => (hist'.op # "tick" /\ ticks' = ticks)]_vars

\* unmounted after the interval had fired, a step was taken since, and
\* a further call would still have been possible
C7_Witness ==
  /\ phase = "unmounted"
  /\ ticks >= 1
  /\ hist.op # "unmount"
  /\ nextId <= MaxFetches

\* C8: moving the slider changes minMag only, to a value in [0, 8], and no
\* other step changes minMag.
C8_ThresholdFrame ==
  [][/\ hist'.op = "threshold" =>
          /\ minMag' \in SliderMin..SliderMax
          /\ UNCHANGED <<features, lastUpdated, loading, error, req, nextId>>
     /\ hist'.op # "threshold" => minMag' = minMag]_vars

\* the slider was moved while a call was suspended
C8_Witness ==
  /\ hist.op = "threshold"
  /\ minMag # 0
  /\ InFlight # {}
  /\ loading

\* the colour bands as ranges
Band(m) ==
  CASE m = Null -> "#9aa0a6"
    [] m # Null /\ m[1] >= 700 -> "#7f0000"
    [] m # Null /\ 600 <= m[1] /\ m[1] < 700 -> "#b30000"
    [] m # Null /\ 500 <= m[1] /\ m[1] < 600 -> "#d7301f"
    [] m # Null /\ 400 <= m[1] /\ m[1] < 500 -> "#ef6548"
    [] m # Null /\ 200 <= m[1] /\ m[1] < 400 -> "#fc8d59"
    [] m # Null /\ m[1] < 200 -> "#fdbb84"

\* C9: magToColor gives each magnitude the colour of its band; a magnitude
\* on a boundary gets the higher band, and 0 is not absent.
C9_ColorBands == color = Band(mag)

\* a magnitude on a boundary was coloured
C9_Witness == mag = Some(500) /\ color = "#d7301f"

\* C10: between steps, error set implies loading clear; so Retry is only
\* pressed with loading clear.
C10_ErrorImpliesNotLoading ==
  /\ [](error # Null => ~loading)
  /\ [][hist'.op = "retry" => ~loading]_vars

\* an error is shown, loading is clear, and a call is still suspended
C10_Witness ==
  /\ error # Null
  /\ ~loading
  /\ InFlight # {}
  /\ phase = "mounted"

====
